---- MODULE Spec2Model ----
(***************************************************************************)
(* Model of src/grafos.py: the Graph class (adjacency lists, edge weights, *)
(* Eulerian classification, degree queries, file import, Dijkstra and path *)
(* reconstruction) driven by the operations the GraphApp shell issues.     *)
(*                                                                         *)
(* Python strings are sequences of one-character strings, so that str      *)
(* comparison, str.split() and int() are computed, not assumed.            *)
(***************************************************************************)
EXTENDS Integers, Sequences, FiniteSets, TLC

\* ------------------------------------------------------------------ bounds
\* Largest weight entered in the add-edge dialog (weights are 1..MaxWeight).
MaxWeight == 3
\* Number of add_edge calls in one behaviour of Spec and of SpecPath (from the
\* dialog or from a file).
MaxEdgeCalls == 3
\* Largest number of lines of a file of Files and of UnitFiles; also the number
\* of add_edge calls in one behaviour of SpecSteps.
MaxLines == 2
\* Largest number of lines of a file of EdgeFiles, and the number of add_edge
\* calls in one behaviour of SpecImport.
MaxEdgeLines == 4

\* ------------------------------------------------------------------ strings
\* Vertex names the shell passes in (non-empty strings).
Names == {<<"A">>, <<"B">>, <<"C">>}
\* Vertex names of the model: D comes from imported files only.
AllNames == Names \cup {<<"D">>}

\* ord(c) for the characters that occur in the model's inputs.
CodePoint ==
    ("\n" :> 10) @@ (" " :> 32) @@ ("+" :> 43) @@ ("-" :> 45) @@
    ("0" :> 48) @@ ("1" :> 49) @@ ("2" :> 50) @@ ("3" :> 51) @@ ("4" :> 52) @@
    ("5" :> 53) @@ ("6" :> 54) @@ ("7" :> 55) @@ ("8" :> 56) @@ ("9" :> 57) @@
    ("A" :> 65) @@ ("B" :> 66) @@ ("C" :> 67) @@ ("D" :> 68) @@ ("x" :> 120)

\* Python's str < str: lexicographic on code points, a proper prefix is smaller.
RECURSIVE str_lt(_, _)
str_lt(s, t) ==
    IF t = <<>> THEN FALSE
    ELSE IF s = <<>> THEN TRUE
    ELSE IF CodePoint[Head(s)] # CodePoint[Head(t)]
         THEN CodePoint[Head(s)] < CodePoint[Head(t)]
         ELSE str_lt(Tail(s), Tail(t))

\* str.isspace() on one character.
IsSpace(c) == c \in {" ", "\n"}

\* line.strip().split(): the maximal runs of non-whitespace characters, in order.
\* cur is the field being read (<<>> between fields).
RECURSIVE split_from(_, _, _)
split_from(line, cur, parts) ==
    IF line = <<>>
    THEN IF cur = <<>> THEN parts ELSE Append(parts, cur)
    ELSE IF IsSpace(Head(line))
         THEN split_from(Tail(line), <<>>,
                         IF cur = <<>> THEN parts ELSE Append(parts, cur))
         ELSE split_from(Tail(line), Append(cur, Head(line)), parts)

split(line) == split_from(line, <<>>, <<>>)

IsDigit(c) == c \in {"0", "1", "2", "3", "4", "5", "6", "7", "8", "9"}

RECURSIVE digits_value(_, _)
digits_value(s, acc) ==
    IF s = <<>> THEN acc
    ELSE digits_value(Tail(s), acc * 10 + (CodePoint[Head(s)] - CodePoint["0"]))

\* int(s) for a field s (no whitespace inside): an optional sign followed by
\* one or more decimal digits; anything else raises ValueError.
int(s) ==
    LET signed == s # <<>> /\ Head(s) \in {"+", "-"}
        body   == IF signed THEN Tail(s) ELSE s
        valid  == body # <<>> /\ \A i \in 1..Len(body) : IsDigit(body[i])
    IN  IF ~valid THEN [ok |-> FALSE, value |-> 0]
        ELSE [ok |-> TRUE,
              value |-> IF signed /\ Head(s) = "-"
                        THEN 0 - digits_value(body, 0)
                        ELSE digits_value(body, 0)]

\* ------------------------------------------------------------------ Graph
\* Graph.__init__ (a dict is a function; the empty dict is <<>>)
NewGraph(d) ==
    [directed |-> d, adjacency_list |-> <<>>, edge_weights |-> <<>>]

Vertices(g) == DOMAIN g.adjacency_list

\* Graph.add_vertex
add_vertex(g, vertex) ==
    IF vertex \notin DOMAIN g.adjacency_list
    THEN [g EXCEPT !.adjacency_list = (vertex :> <<>>) @@ g.adjacency_list]
    ELSE g

\* dict[key] = value
DictSet(d, k, v) == (k :> v) @@ d

\* add_edge that records the weight of the inserted direction only
add_edge_one_weight(g, source, target, weight) ==
    LET g1 == add_vertex(g, source)
        g2 == add_vertex(g1, target)
        a1 == [g2.adjacency_list EXCEPT ![source] = Append(@, target)]
        w1 == DictSet(g2.edge_weights, <<source, target>>, weight)
    IN  IF ~g.directed
        THEN [g2 EXCEPT !.adjacency_list = [a1 EXCEPT ![target] = Append(@, source)],
                        !.edge_weights = w1]
        ELSE [g2 EXCEPT !.adjacency_list = a1, !.edge_weights = w1]

\* Graph.add_edge
add_edge(g, source, target, weight) ==
    LET g1 == add_vertex(g, source)
        g2 == add_vertex(g1, target)
        a1 == [g2.adjacency_list EXCEPT ![source] = Append(@, target)]
        w1 == DictSet(g2.edge_weights, <<source, target>>, weight)
    IN  IF ~g.directed
        THEN [g2 EXCEPT !.adjacency_list = [a1 EXCEPT ![target] = Append(@, source)],
                        !.edge_weights = DictSet(w1, <<target, source>>, weight)]
        ELSE [g2 EXCEPT !.adjacency_list = a1, !.edge_weights = w1]

\* x in list
Contains(list, x) == \E i \in 1..Len(list) : list[i] = x

\* sum(len(edges) for edges in self.adjacency_list.values())
RECURSIVE sum_len(_, _)
sum_len(adj, keys) ==
    IF keys = {} THEN 0
    ELSE LET k == CHOOSE x \in keys : TRUE
         IN  Len(adj[k]) + sum_len(adj, keys \ {k})

\* is_eulerian with "at most two" in place of "exactly two"
is_eulerian_at_most_two(g) ==
    LET odd_degree_vertices ==
            Cardinality({v \in DOMAIN g.adjacency_list : Len(g.adjacency_list[v]) % 2 # 0})
    IN  IF odd_degree_vertices = 0 THEN <<TRUE, FALSE>>
        ELSE IF odd_degree_vertices <= 2 THEN <<FALSE, TRUE>>
        ELSE <<FALSE, FALSE>>

\* Graph.is_eulerian: <<eulerian, semi-eulerian>>
is_eulerian(g) ==
    LET odd_degree_vertices ==
            Cardinality({v \in DOMAIN g.adjacency_list : Len(g.adjacency_list[v]) % 2 # 0})
    IN  IF odd_degree_vertices = 0 THEN <<TRUE, FALSE>>
        ELSE IF odd_degree_vertices = 2 THEN <<FALSE, TRUE>>
        ELSE <<FALSE, FALSE>>

\* Graph.get_order
get_order(g) == Cardinality(DOMAIN g.adjacency_list)

\* get_size that never halves
get_size_raw(g) == sum_len(g.adjacency_list, DOMAIN g.adjacency_list)

\* Graph.get_size
get_size(g) ==
    sum_len(g.adjacency_list, DOMAIN g.adjacency_list) \div (IF ~g.directed THEN 2 ELSE 1)

\* Graph.get_adjacent_vertices
get_adjacent_vertices(g, vertex) ==
    IF vertex \in DOMAIN g.adjacency_list THEN g.adjacency_list[vertex] ELSE <<>>

\* list.count(x)
RECURSIVE Count(_, _)
Count(list, x) ==
    IF list = <<>> THEN 0
    ELSE (IF Head(list) = x THEN 1 ELSE 0) + Count(Tail(list), x)

RECURSIVE sum_count(_, _, _)
sum_count(adj, keys, x) ==
    IF keys = {} THEN 0
    ELSE LET k == CHOOSE y \in keys : TRUE
         IN  Count(adj[k], x) + sum_count(adj, keys \ {k}, x)

\* get_degree whose in_degree counts list entries (edges.count(vertex))
get_degree_directed_entries(g, vertex) ==
    [out_degree |-> Len(get_adjacent_vertices(g, vertex)),
     in_degree  |-> sum_count(g.adjacency_list, DOMAIN g.adjacency_list, vertex)]

\* Graph.get_degree on a directed graph: the in_degree / out_degree dict
get_degree_directed(g, vertex) ==
    [out_degree |-> Len(get_adjacent_vertices(g, vertex)),
     in_degree  |-> Cardinality({u \in DOMAIN g.adjacency_list :
                                    Contains(g.adjacency_list[u], vertex)})]

\* Graph.get_degree on an undirected graph: a number
get_degree_undirected(g, vertex) == Len(get_adjacent_vertices(g, vertex))

\* Graph.are_adjacent
are_adjacent(g, v1, v2) == Contains(get_adjacent_vertices(g, v1), v2)

\* Graph.load_from_file on the lines still to read.  calls lists the add_edge
\* calls made so far; raised tells whether the loop ended in an exception
\* (IndexError from parts[0..2], ValueError from int).
RECURSIVE load_lines(_, _, _)
load_lines(g, lines, calls) ==
    IF lines = <<>> THEN [graph |-> g, raised |-> FALSE, calls |-> calls]
    ELSE LET parts == split(Head(lines))
         IN  IF Len(parts) < 3 THEN [graph |-> g, raised |-> TRUE, calls |-> calls]
             ELSE IF ~int(parts[3]).ok THEN [graph |-> g, raised |-> TRUE, calls |-> calls]
             ELSE load_lines(add_edge(g, parts[1], parts[2], int(parts[3]).value),
                             Tail(lines),
                             Append(calls, <<parts[1], parts[2], int(parts[3]).value>>))

load_from_file(g, lines) == load_lines(g, lines, <<>>)

\* ------------------------------------------------------------------ Dijkstra
\* None as a predecessor (the empty string is no vertex name of the model)
None == <<>>

\* float('infinity'), kept apart from every finite distance
Infinity == -1

\* distance < distances[neighbor] for a finite distance
dist_lt(distance, known) == known = Infinity \/ distance < known

\* a weight lookup that ignores the stored weight
edge_weight_unit(g, u, v) == 1

\* self.edge_weights.get((current_vertex, neighbor), 1)
edge_weight(g, u, v) ==
    IF <<u, v>> \in DOMAIN g.edge_weights THEN g.edge_weights[<<u, v>>] ELSE 1

\* (d1, v1) < (d2, v2) on Python tuples
tuple_lt(a, b) == a[1] < b[1] \/ (a[1] = b[1] /\ str_lt(a[2], b[2]))

\* a push that appends, as list.append would: the queue is first-in first-out
heappush_append(heap, item) == Append(heap, item)

\* a pop that reads the smallest item and leaves it in the heap
heappop_peek(heap) == [item |-> Head(heap), heap |-> heap]

\* heapq.heappush: the heap is kept as the sorted list of its items (heappop
\* returns the smallest item whatever the array layout is)
RECURSIVE heappush(_, _)
heappush(heap, item) ==
    IF heap = <<>> THEN <<item>>
    ELSE IF tuple_lt(item, Head(heap)) THEN <<item>> \o heap
    ELSE <<Head(heap)>> \o heappush(Tail(heap), item)

\* heapq.heappop: the smallest item and the remaining heap
heappop(heap) == [item |-> Head(heap), heap |-> Tail(heap)]

\* Graph.dijkstra before the while loop.  settled, stale_popped and
\* stale_relaxed are history: the vertices extracted so far, whether a vertex
\* was extracted a second time, and whether such an extraction ran the body of
\* the if.
dijkstra_init(g, start_vertex) ==
    [distances      |-> [v \in DOMAIN g.adjacency_list |->
                            IF v = start_vertex THEN 0 ELSE Infinity],
     priority_queue |-> <<<<0, start_vertex>>>>,
     predecessors   |-> [v \in DOMAIN g.adjacency_list |-> None],
     settled        |-> {},
     stale_popped   |-> FALSE,
     stale_relaxed  |-> FALSE]

\* the for loop of Graph.dijkstra over the neighbours still to visit
RECURSIVE relax_neighbors(_, _, _, _, _, _)
relax_neighbors(g, current_distance, current_vertex, neighbors, stale, st) ==
    IF neighbors = <<>> THEN st
    ELSE LET neighbor == Head(neighbors)
             weight   == edge_weight(g, current_vertex, neighbor)
             distance == current_distance + weight
         IN  IF dist_lt(distance, st.distances[neighbor])
             THEN relax_neighbors(g, current_distance, current_vertex, Tail(neighbors), stale,
                    [st EXCEPT !.distances[neighbor] = distance,
                               !.predecessors[neighbor] = current_vertex,
                               !.priority_queue = heappush(@, <<distance, neighbor>>),
                               !.stale_relaxed = (@ \/ stale)])
             ELSE relax_neighbors(g, current_distance, current_vertex, Tail(neighbors),
                                  stale, st)

\* one iteration of the while loop of Graph.dijkstra
dijkstra_iteration(g, st) ==
    LET popped          == heappop(st.priority_queue)
        current_vertex  == popped.item[2]
    IN  relax_neighbors(g, popped.item[1], current_vertex,
                        g.adjacency_list[current_vertex],
                        current_vertex \in st.settled,
                        [st EXCEPT !.priority_queue = popped.heap,
                                   !.stale_popped = (@ \/ current_vertex \in st.settled),
                                   !.settled = @ \cup {current_vertex}])

\* the while loop of Graph.dijkstra
RECURSIVE dijkstra_loop(_, _)
dijkstra_loop(g, st) ==
    IF st.priority_queue = <<>> THEN st
    ELSE dijkstra_loop(g, dijkstra_iteration(g, st))

\* Graph.dijkstra
dijkstra(g, start_vertex) == dijkstra_loop(g, dijkstra_init(g, start_vertex))

\* dijkstra with a settled set: an extracted entry whose vertex was extracted
\* before is skipped, every other iteration is the one of Graph.dijkstra
RECURSIVE settled_loop(_, _)
settled_loop(g, st) ==
    IF st.priority_queue = <<>> THEN st
    ELSE IF heappop(st.priority_queue).item[2] \in st.settled
         THEN settled_loop(g, [st EXCEPT !.priority_queue = heappop(@).heap])
         ELSE settled_loop(g, dijkstra_iteration(g, st))

settled_dijkstra(g, start_vertex) == settled_loop(g, dijkstra_init(g, start_vertex))

\* the while loop with path.append in place of path.insert(0, ...)
RECURSIVE walk_back_append(_, _, _)
walk_back_append(predecessors, current_vertex, path) ==
    IF predecessors[current_vertex] # None
    THEN walk_back_append(predecessors, predecessors[current_vertex],
                          path \o <<current_vertex>>)
    ELSE [path |-> path, current_vertex |-> current_vertex]

\* the path reconstruction of Graph.shortest_path: the while loop
RECURSIVE walk_back(_, _, _)
walk_back(predecessors, current_vertex, path) ==
    IF predecessors[current_vertex] # None
    THEN walk_back(predecessors, predecessors[current_vertex], <<current_vertex>> \o path)
    ELSE [path |-> path, current_vertex |-> current_vertex]

\* Graph.shortest_path after dijkstra returned
shortest_path_result(distances, predecessors, end) ==
    IF distances[end] = Infinity
    THEN [no_path |-> TRUE, cost |-> Infinity, path |-> <<>>]
    ELSE LET w == walk_back(predecessors, end, <<>>)
         IN  [no_path |-> FALSE,
              cost    |-> distances[end],
              path    |-> IF w.path # <<>> THEN <<w.current_vertex>> \o w.path ELSE w.path]

\* ------------------------------------------------------------------ inputs
\* Lines of the files the shell is asked to load.
FileLines ==
    { <<"A", " ", "B", " ", "0", "\n">>,            \* A B 0
      <<"B", " ", "C", " ", "+", "1", "\n">>,       \* B C +1
      <<" ", "C", " ", " ", "A", " ", "2">>,        \*  C  A 2   (last line, no newline)
      <<"A", " ", "C", " ", "x", "\n">>,            \* A C x     (weight is no integer)
      <<"A", " ", "B", "\n">>,                      \* A B       (two fields)
      <<"C", " ", "B", " ", "1", " ", "x", "\n">>,  \* C B 1 x   (four fields)
      <<"\n">> }                                    \* blank line

\* Well-formed lines over four vertices: a chain A-B-C-D of weight 1, a heavy
\* shortcut A-C, and two edges of weight 0.
EdgeLines ==
    { <<"A", " ", "B", " ", "1", "\n">>,
      <<"A", " ", "C", " ", "3", "\n">>,
      <<"B", " ", "C", " ", "1", "\n">>,
      <<"C", " ", "D", " ", "1", "\n">>,
      <<"B", " ", "C", " ", "0", "\n">>,
      <<"D", " ", "A", " ", "0", "\n">> }

\* Well-formed lines with a weight of 0 or 1, for the runs of the stepwise dijkstra.
UnitLines ==
    { s \o <<" ">> \o t \o <<" ", d, "\n">> : s \in Names, t \in Names, d \in {"0", "1"} }

RECURSIVE SeqsUpTo(_, _)
SeqsUpTo(S, n) ==
    IF n = 0 THEN {<<>>}
    ELSE LET shorter == SeqsUpTo(S, n - 1)
         IN  shorter \cup {Append(f, x) : f \in {q \in shorter : Len(q) = n - 1}, x \in S}

Files == SeqsUpTo(FileLines, MaxLines)
UnitFiles == SeqsUpTo(UnitLines, MaxLines)
EdgeFiles == SeqsUpTo(EdgeLines, MaxEdgeLines)

\* ------------------------------------------------------------------ state
VARIABLES
    graph,           \* GraphApp.graph: [directed, adjacency_list, edge_weights]
    pc,              \* "idle", or where find_shortest_path is: "loop", "done"
    start_vertex,    \* arguments of the running shortest_path
    end_vertex,
    run,             \* locals of the running dijkstra: distances, predecessors,
                     \* priority_queue (and the history settled, stale_relaxed)
    result,          \* what shortest_path returned
    load_raised,     \* the last handler was load_graph and it raised
    \* history, read by the properties only
    everDirected,    \* graph.directed has been TRUE at some point
    numCalls,        \* add_edge calls so far
    edgeHist,        \* {u, v} |-> [n: add_edge calls on the pair, w: last weight]
    last_load        \* the load_graph call that was the last handler, if any

vars == <<graph, pc, start_vertex, end_vertex, run, result, load_raised,
          everDirected, numCalls, edgeHist, last_load>>

pathVars == <<pc, start_vertex, end_vertex, run, result>>
histVars == <<everDirected, numCalls, edgeHist>>

NoRun    == [distances |-> <<>>, priority_queue |-> <<>>, predecessors |-> <<>>,
             settled |-> {}, stale_popped |-> FALSE, stale_relaxed |-> FALSE]
NoResult == [no_path |-> FALSE, cost |-> Infinity, path |-> <<>>]
NoLoad   == [happened |-> FALSE, lines |-> <<>>, before |-> NewGraph(FALSE)]

\* history of add_edge calls
RecordCall(hist, call) ==
    LET pair == {call[1], call[2]}
        n    == IF pair \in DOMAIN hist THEN hist[pair].n ELSE 0
    IN  (pair :> [n |-> n + 1, w |-> call[3]]) @@ hist

RECURSIVE RecordCalls(_, _)
RecordCalls(hist, calls) ==
    IF calls = <<>> THEN hist
    ELSE RecordCalls(RecordCall(hist, Head(calls)), Tail(calls))

\* GraphApp.__init__
Init ==
    /\ graph = NewGraph(FALSE)
    /\ pc = "idle"
    /\ start_vertex = None
    /\ end_vertex = None
    /\ run = NoRun
    /\ result = NoResult
    /\ load_raised = FALSE
    /\ everDirected = FALSE
    /\ numCalls = 0
    /\ edgeHist = <<>>
    /\ last_load = NoLoad

\* GraphApp.toggle_directed: the checkbox flips
ToggleDirected ==
    /\ pc = "idle"
    /\ graph' = [graph EXCEPT !.directed = ~graph.directed]
    /\ everDirected' = (everDirected \/ ~graph.directed)
    /\ load_raised' = FALSE
    /\ last_load' = NoLoad
    /\ UNCHANGED <<pathVars, numCalls, edgeHist>>

\* GraphApp.add_vertex with a non-empty name
AddVertex(vertex) ==
    /\ pc = "idle"
    /\ graph' = add_vertex(graph, vertex)
    /\ load_raised' = FALSE
    /\ last_load' = NoLoad
    /\ UNCHANGED <<pathVars, histVars>>

\* GraphApp.add_edge with non-empty names and a weight its dialog accepts
\* (askinteger with minvalue=1)
AddEdge(source, target, weight) ==
    /\ pc = "idle"
    /\ numCalls < MaxEdgeCalls
    /\ graph' = add_edge(graph, source, target, weight)
    /\ numCalls' = numCalls + 1
    /\ edgeHist' = RecordCall(edgeHist, <<source, target, weight>>)
    /\ load_raised' = FALSE
    /\ last_load' = NoLoad
    /\ UNCHANGED <<pathVars, everDirected>>

\* GraphApp.load_graph on a file with the given lines
LoadGraph(lines) ==
    /\ pc = "idle"
    /\ \E r \in {load_from_file(graph, lines)} :
           /\ graph' = r.graph
           /\ load_raised' = r.raised
           /\ numCalls' = numCalls + Len(r.calls)
           /\ edgeHist' = RecordCalls(edgeHist, r.calls)
    /\ last_load' = [happened |-> TRUE, lines |-> lines, before |-> graph]
    /\ UNCHANGED <<pathVars, everDirected>>

\* GraphApp.find_shortest_path with the names of two vertices of the graph, up
\* to the message box: shortest_path runs dijkstra to its end
FindShortestPath(start, end) ==
    /\ pc = "idle"
    /\ start \in DOMAIN graph.adjacency_list
    /\ end \in DOMAIN graph.adjacency_list
    /\ \E st \in {dijkstra(graph, start)} :
           /\ run' = st
           /\ result' = shortest_path_result(st.distances, st.predecessors, end)
    /\ start_vertex' = start
    /\ end_vertex' = end
    /\ pc' = "done"
    /\ load_raised' = FALSE
    /\ last_load' = NoLoad
    /\ UNCHANGED <<graph, histVars>>

\* The same handler in steps.  First: shortest_path calls dijkstra, which
\* initialises its locals and reaches the test of the while loop.
StartShortestPath(start, end) ==
    /\ pc = "idle"
    /\ start \in DOMAIN graph.adjacency_list
    /\ end \in DOMAIN graph.adjacency_list
    /\ run' = dijkstra_init(graph, start)
    /\ start_vertex' = start
    /\ end_vertex' = end
    /\ pc' = "loop"
    /\ load_raised' = FALSE
    /\ last_load' = NoLoad
    /\ UNCHANGED <<graph, result, histVars>>

\* one iteration of the while loop of dijkstra
DijkstraStep ==
    /\ pc = "loop"
    /\ run.priority_queue # <<>>
    /\ run' = dijkstra_iteration(graph, run)
    /\ UNCHANGED <<graph, pc, start_vertex, end_vertex, result, load_raised,
                   histVars, last_load>>

\* the while loop of dijkstra ends; shortest_path builds its result
ShortestPathReturn ==
    /\ pc = "loop"
    /\ run.priority_queue = <<>>
    /\ result' = shortest_path_result(run.distances, run.predecessors, end_vertex)
    /\ pc' = "done"
    /\ UNCHANGED <<graph, start_vertex, end_vertex, run, load_raised, histVars, last_load>>

\* the message box of find_shortest_path is closed; the locals are gone
Dismiss ==
    /\ pc = "done"
    /\ pc' = "idle"
    /\ start_vertex' = None
    /\ end_vertex' = None
    /\ run' = NoRun
    /\ result' = NoResult
    /\ UNCHANGED <<graph, load_raised, histVars, last_load>>

AddVertexAny == \E v \in Names : AddVertex(v)
AddEdgeAny == \E s \in Names, t \in Names, w \in 1..MaxWeight : AddEdge(s, t, w)
FindShortestPathAny == \E s \in AllNames, e \in AllNames : FindShortestPath(s, e)
StartShortestPathAny == \E s \in AllNames, e \in AllNames : StartShortestPath(s, e)
\* imports, as long as the add_edge calls of the behaviour stay within the bound
LoadGraphAny ==
    \E f \in Files : numCalls + Len(f) <= MaxEdgeCalls /\ LoadGraph(f)
LoadEdgeFileAny ==
    \E f \in EdgeFiles : numCalls + Len(f) <= MaxEdgeLines /\ LoadGraph(f)
LoadUnitFileAny ==
    \E f \in UnitFiles : numCalls + Len(f) <= MaxLines /\ LoadGraph(f)

\* Building and importing graphs.
Next ==
    \/ ToggleDirected
    \/ AddVertexAny
    \/ AddEdgeAny
    \/ LoadGraphAny

Spec == Init /\ [][Next]_vars

\* Building graphs edge by edge and asking for shortest paths.
NextPath ==
    \/ ToggleDirected
    \/ AddVertexAny
    \/ AddEdgeAny
    \/ FindShortestPathAny
    \/ Dismiss

SpecPath == Init /\ [][NextPath]_vars

\* Importing graphs on four vertices and asking for shortest paths.
NextImport ==
    \/ ToggleDirected
    \/ LoadEdgeFileAny
    \/ FindShortestPathAny
    \/ Dismiss

SpecImport == Init /\ [][NextImport]_vars

\* Importing graphs and running dijkstra one loop iteration at a time.  The
\* handler runs on one thread without waiting for anything: a started loop
\* keeps iterating, and returns once the queue is empty.
NextSteps ==
    \/ ToggleDirected
    \/ LoadUnitFileAny
    \/ StartShortestPathAny
    \/ DijkstraStep
    \/ ShortestPathReturn
    \/ Dismiss

SpecSteps ==
    Init /\ [][NextSteps]_vars /\ WF_vars(DijkstraStep) /\ WF_vars(ShortestPathReturn)

\* ------------------------------------------------------------------ properties
Pairs == {{u, v} : u \in Names, v \in Names}

\* the stored weight of every neighbour entry
StoredWeights(g) ==
    {g.edge_weights[k] : k \in DOMAIN g.edge_weights}

\* C4: while the graph has never been directed, every pair (u, v) given to
\* add_edge is adjacent both ways, u is in v's list as often as v is in u's,
\* and both stored weights are the weight of the last add_edge on {u, v}.
C4_UndirectedPairs ==
    ~everDirected =>
        \A p \in DOMAIN edgeHist : \A u \in p, v \in p :
            (u # v \/ Cardinality(p) = 1) =>
                /\ are_adjacent(graph, u, v)
                /\ are_adjacent(graph, v, u)
                /\ Count(graph.adjacency_list[v], u) = Count(graph.adjacency_list[u], v)
                /\ <<u, v>> \in DOMAIN graph.edge_weights
                /\ <<v, u>> \in DOMAIN graph.edge_weights
                /\ graph.edge_weights[<<u, v>>] = edgeHist[p].w
                /\ graph.edge_weights[<<v, u>>] = edgeHist[p].w

\* a pair of distinct vertices was given to add_edge twice on a graph that was
\* never directed, so that one of the two has three neighbour entries
C4_Witness ==
    /\ ~everDirected
    /\ \E p \in DOMAIN edgeHist :
          /\ Cardinality(p) = 2
          /\ edgeHist[p].n >= 2
          /\ \E u \in p : Len(graph.adjacency_list[u]) >= 3

RECURSIVE SumDegrees(_, _)
SumDegrees(g, vs) ==
    IF vs = {} THEN 0
    ELSE LET v == CHOOSE x \in vs : TRUE
         IN  get_degree_undirected(g, v) + SumDegrees(g, vs \ {v})

\* C5: on a graph that was never directed, after add_edge on k distinct
\* unordered pairs (none repeated, self-loops allowed) get_size is k and the
\* degrees sum to 2k; the total of the list lengths is even in every state.
C5_SizeAndDegrees ==
    ~everDirected =>
        /\ SumDegrees(graph, Names) % 2 = 0
        /\ (\A p \in DOMAIN edgeHist : edgeHist[p].n = 1) =>
              /\ get_size(graph) = Cardinality(DOMAIN edgeHist)
              /\ SumDegrees(graph, Names) = 2 * Cardinality(DOMAIN edgeHist)

\* three distinct pairs, one of them a self-loop, and an isolated vertex
C5_Witness ==
    /\ ~everDirected
    /\ \A p \in DOMAIN edgeHist : edgeHist[p].n = 1
    /\ Cardinality(DOMAIN edgeHist) = 3
    /\ \E p \in DOMAIN edgeHist : Cardinality(p) = 1
    /\ \E v \in DOMAIN graph.adjacency_list : graph.adjacency_list[v] = <<>>
    /\ get_size(graph) = 3

RECURSIVE OddCount(_, _)
OddCount(g, vs) ==
    IF vs = {} THEN 0
    ELSE LET v == CHOOSE x \in vs : TRUE
         IN  (Len(g.adjacency_list[v]) % 2) + OddCount(g, vs \ {v})

\* C6: is_eulerian is (TRUE, FALSE) when no vertex has an odd list length,
\* (FALSE, TRUE) when exactly two have, (FALSE, FALSE) otherwise.
C6_EulerianClasses ==
    LET odd == OddCount(graph, DOMAIN graph.adjacency_list)
        r   == is_eulerian(graph)
    IN  /\ (odd = 0) => r = <<TRUE, FALSE>>
        /\ (odd = 2) => r = <<FALSE, TRUE>>
        /\ (odd \notin {0, 2}) => r = <<FALSE, FALSE>>
        /\ ~(r[1] /\ r[2])

\* a graph with exactly one vertex of odd degree (possible only once directed)
C6_Witness ==
    /\ OddCount(graph, DOMAIN graph.adjacency_list) = 1
    /\ is_eulerian(graph) = <<FALSE, FALSE>>

\* number of vertices of vs, v excepted when others_only, whose list contains v
RECURSIVE ListsContaining(_, _, _, _)
ListsContaining(g, vs, v, others_only) ==
    IF vs = {} THEN 0
    ELSE LET u == CHOOSE x \in vs : TRUE
         IN  (IF Count(g.adjacency_list[u], v) > 0 /\ ~(others_only /\ u = v) THEN 1 ELSE 0)
             + ListsContaining(g, vs \ {u}, v, others_only)

OutDegreeIsListLength(v) ==
    get_degree_directed(graph, v).out_degree =
        IF v \in DOMAIN graph.adjacency_list THEN Len(graph.adjacency_list[v]) ELSE 0

\* C7 as stated: on a directed graph in_degree counts the vertices OTHER THAN v
\* whose list contains v.
C7_InDegreeOthersOnly ==
    graph.directed =>
        \A v \in Names :
            /\ OutDegreeIsListLength(v)
            /\ get_degree_directed(graph, v).in_degree =
                   ListsContaining(graph, DOMAIN graph.adjacency_list, v, TRUE)

\* C7, amended: on a directed graph out_degree is the length of v's list (0 for
\* an unknown v) and in_degree is the number of vertices, v included, whose
\* list contains v.
C7_InDegreeAllLists ==
    graph.directed =>
        \A v \in Names :
            /\ OutDegreeIsListLength(v)
            /\ get_degree_directed(graph, v).in_degree =
                   ListsContaining(graph, DOMAIN graph.adjacency_list, v, FALSE)

\* a directed graph where v has a self-loop, is twice in another list, and a
\* vertex of the model is unknown to the graph
C7_Witness ==
    /\ graph.directed
    /\ \E v \in DOMAIN graph.adjacency_list :
          /\ are_adjacent(graph, v, v)
          /\ \E u \in DOMAIN graph.adjacency_list \ {v} :
                Count(graph.adjacency_list[u], v) = 2
          /\ get_degree_directed(graph, v).in_degree = 2
    /\ DOMAIN graph.adjacency_list # Names

\* a line is malformed, as C8 has it: not exactly three fields, or a third
\* field that is no integer
Malformed(line) ==
    LET parts == split(line)
    IN  Len(parts) # 3 \/ ~int(parts[3]).ok

\* the graph after one add_edge per line, for well-formed lines
RECURSIVE AddEdgePerLine(_, _)
AddEdgePerLine(g, lines) ==
    IF lines = <<>> THEN g
    ELSE LET parts == split(Head(lines))
         IN  AddEdgePerLine(add_edge(g, parts[1], parts[2], int(parts[3]).value),
                            Tail(lines))

\* C8: load_from_file fails at the first malformed line; the edges of the
\* lines before it are in the graph, and that line and the later ones change
\* nothing.  (A file without malformed line loads whole, without error.)
C8_LoadStopsAtMalformed ==
    last_load.happened =>
        LET lines == last_load.lines
            bad   == {i \in 1..Len(lines) : Malformed(lines[i])}
            first == IF bad = {} THEN Len(lines) + 1
                     ELSE CHOOSE i \in bad : \A j \in bad : i <= j
        IN  /\ load_raised = (bad # {})
            /\ graph = AddEdgePerLine(last_load.before, SubSeq(lines, 1, first - 1))

\* vertices reachable from the vertices of S along neighbour entries
RECURSIVE ReachableFrom(_, _)
ReachableFrom(g, S) ==
    LET more == S \cup {v \in DOMAIN g.adjacency_list :
                          \E u \in S : Contains(g.adjacency_list[u], v)}
    IN  IF more = S THEN S ELSE ReachableFrom(g, more)

MinOf(S) == CHOOSE m \in S : \A x \in S : m <= x

\* least total stored weight of a walk of at most n edges from start, per
\* vertex (Infinity when there is none): n rounds of Bellman-Ford, WalkStep
\* being one round
WalkStep(g, D) ==
    LET cands(v) ==
            (IF D[v] # Infinity THEN {D[v]} ELSE {}) \cup
            { D[u] + g.edge_weights[<<u, v>>] :
                u \in {x \in DOMAIN g.adjacency_list :
                         D[x] # Infinity /\ Contains(g.adjacency_list[x], v)} }
    IN  [v \in DOMAIN g.adjacency_list |->
            IF cands(v) = {} THEN Infinity ELSE MinOf(cands(v))]

RECURSIVE WalkDist(_, _, _)
WalkDist(g, start, n) ==
    IF n = 0
    THEN [v \in DOMAIN g.adjacency_list |-> IF v = start THEN 0 ELSE Infinity]
    ELSE CHOOSE r \in {WalkStep(g, D) : D \in {WalkDist(g, start, n - 1)}} : TRUE

\* with weights >= 0 a lightest walk repeats no vertex
MinWalk(g, start) == WalkDist(g, start, Cardinality(DOMAIN g.adjacency_list))

WeightsAtLeast(g, low) == \A w \in StoredWeights(g) : w >= low

\* C1: with all weights >= 1, dijkstra(start) gives every vertex the least
\* total stored weight of a walk from start, 0 to start itself, and infinity
\* exactly to the vertices that cannot be reached from start.
C1_DijkstraDistances ==
    (pc = "done" /\ WeightsAtLeast(graph, 1)) =>
        /\ run.distances = MinWalk(graph, start_vertex)
        /\ run.distances[start_vertex] = 0
        /\ \A v \in DOMAIN graph.adjacency_list :
              (run.distances[v] = Infinity) <=> (v \notin ReachableFrom(graph, {start_vertex}))

\* a finished run, weights >= 1, where a neighbour of start ends with less
\* than the weight of its edge from start (its first distance was improved)
C1_Witness ==
    /\ pc = "done"
    /\ WeightsAtLeast(graph, 1)
    /\ \E v \in DOMAIN graph.adjacency_list :
          /\ are_adjacent(graph, start_vertex, v)
          /\ run.distances[v] < graph.edge_weights[<<start_vertex, v>>]

RECURSIVE PathWeight(_, _)
PathWeight(g, path) ==
    IF Len(path) < 2 THEN 0
    ELSE g.edge_weights[<<path[1], path[2]>>] + PathWeight(g, Tail(path))

\* C2: with all weights >= 1, for start # end and end reachable, shortest_path
\* returns the dijkstra distance of end and a path from start to end along
\* neighbour entries whose stored weights sum to that cost.
C2_PathOfReachableEnd ==
    (/\ pc = "done"
     /\ WeightsAtLeast(graph, 1)
     /\ start_vertex # end_vertex
     /\ end_vertex \in ReachableFrom(graph, {start_vertex})) =>
        /\ ~result.no_path
        /\ result.cost = run.distances[end_vertex]
        /\ result.path # <<>>
        /\ result.path[1] = start_vertex
        /\ result.path[Len(result.path)] = end_vertex
        /\ \A i \in 1..(Len(result.path) - 1) :
              are_adjacent(graph, result.path[i], result.path[i + 1])
        /\ PathWeight(graph, result.path) = result.cost

\* a path of three vertices found although end is a neighbour of start
C2_Witness ==
    /\ pc = "done"
    /\ WeightsAtLeast(graph, 1)
    /\ start_vertex # end_vertex
    /\ are_adjacent(graph, start_vertex, end_vertex)
    /\ Len(result.path) = 3

\* C3 as stated: shortest_path(start, start) returns cost 0 and the path [start].
C3_PathToItself ==
    (pc = "done" /\ start_vertex = end_vertex) =>
        /\ ~result.no_path
        /\ result.cost = 0
        /\ result.path = <<start_vertex>>

\* C9: with weights >= 0, dijkstra ends with the distances and predecessors of
\* the variant that skips every extracted entry of an already extracted
\* vertex, and no such entry ever relaxed an edge.
C9_SettledSetEquivalent ==
    (pc = "done" /\ WeightsAtLeast(graph, 0)) =>
        \A v \in {settled_dijkstra(graph, start_vertex)} :
            /\ run.distances = v.distances
            /\ run.predecessors = v.predecessors
            /\ ~run.stale_relaxed

\* a finished run over four vertices in which a vertex was extracted twice
\* and the end is three edges away from the start
C9_Witness ==
    /\ pc = "done"
    /\ run.stale_popped
    /\ Cardinality(run.settled) = 4
    /\ Len(result.path) = 4

\* C10: with weights >= 0 the while loop of dijkstra, once entered, empties
\* the queue and shortest_path returns.
C10_DijkstraTerminates == (pc = "loop") ~> (pc = "done")

\* a run that returned on a graph where two vertices are joined both ways by
\* entries of weight 0 and both were extracted
C10_Witness ==
    /\ pc = "done"
    /\ \E u \in run.settled, v \in run.settled :
          /\ u # v
          /\ are_adjacent(graph, u, v)
          /\ are_adjacent(graph, v, u)
          /\ graph.edge_weights[<<u, v>>] = 0
          /\ graph.edge_weights[<<v, u>>] = 0

====
